---- MODULE Spec2Model ----
(***************************************************************************)
(* Model of the CSV -> Postgres (staging) -> ClickHouse (analytical) ELT   *)
(* pipeline of etl/etl.py: the transform (fill_defaults, hmac_hash,        *)
(* transform_df, the target-column projection of main) and the run         *)
(* controller main() with its store adapters.                              *)
(*                                                                         *)
(* A DataFrame is [cols |-> sequence of column names, rows |-> sequence of *)
(* rows], a row being a function from the column names to cells.  A cell   *)
(* is a record [k, n, s]: k is the kind ("null", "num", "str", "ts",       *)
(* "tok"), n an integer payload and s a string payload.  Numbers are kept  *)
(* in tenths (27 is 2.7) so that truncation to an integer is visible.      *)
(***************************************************************************)
EXTENDS Integers, Sequences, FiniteSets, TLC

\* -------------------------------------------------------------- bounds
\* Most rows of the CSV file at INPUT_CSV.
MaxCsvRows == 2
\* Most runs (invocations of main) in one behaviour.
MaxRuns == 2
\* Most rows of a staged batch handed to the transform on its own.
MaxBatchRows == 2
\* The most runs the scheduler creates.
MaxDagRuns == 2
\* The last minute of the scheduler's clock.
MaxClock == 11

\* ---------------------------------------------------------------- cells
Null == [k |-> "null", n |-> 0, s |-> ""]
Num(x) == [k |-> "num", n |-> x, s |-> ""]
Str(t) == [k |-> "str", n |-> 0, s |-> t]
\* A parsed timestamp (pandas Timestamp), n minutes after some epoch.
Ts(m) == [k |-> "ts", n |-> m, s |-> ""]
\* An HMAC-SHA256 hex digest of message msg under key number key.  HMAC is
\* modelled as collision free: the digest names its key and its message.
Tok(key, msg) == [k |-> "tok", n |-> key, s |-> msg]

\* pd.isna / pd.notna: None, NaN and NaT are all the null cell.
isna(c) == c.k = "null"

\* str(x) of a cell, as hmac_hash's str(value) and Series.astype(str) give
\* it: a float prints with its decimal, a string is itself, a null value
\* prints as a placeholder word.
PyStr(c) ==
    CASE c.k = "str" -> c.s
      [] c.k = "num" -> (IF c.n < 0 THEN "-" ELSE "")
                        \o ToString((IF c.n < 0 THEN -c.n ELSE c.n) \div 10)
                        \o "." \o ToString((IF c.n < 0 THEN -c.n ELSE c.n) % 10)
      [] c.k = "ts" -> "ts" \o ToString(c.n)
      [] c.k = "tok" -> "hmac" \o ToString(c.n) \o ":" \o c.s
      [] OTHER -> "None"

\* The strings of the model that pandas parses as numbers, with their
\* values in tenths; every other string fails to parse.
NumericStrings == {<<"2.7", 27>>, <<"0", 0>>, <<"3", 30>>, <<"1.0", 10>>}

\* pd.to_numeric(x, errors="coerce") of one cell: NaN (null) on failure.
to_numeric(c) ==
    CASE c.k = "num" -> c
      [] c.k = "str" ->
            IF \E p \in NumericStrings : p[1] = c.s
            THEN Num((CHOOSE p \in NumericStrings : p[1] = c.s)[2])
            ELSE Null
      [] OTHER -> Null

\* The strings of the model that pandas parses as timestamps.
DatetimeStrings == {<<"2024-03-01 10:00", 600>>, <<"2024-03-01 10:30", 630>>,
                    <<"1970-01-01 00:00", 0>>}

\* pd.to_datetime(x, errors="coerce") of one cell: NaT (null) on failure.
to_datetime(c) ==
    CASE c.k = "ts" -> c
      [] c.k = "str" ->
            IF \E p \in DatetimeStrings : p[1] = c.s
            THEN Ts((CHOOSE p \in DatetimeStrings : p[1] = c.s)[2])
            ELSE Null
      [] OTHER -> Null

\* Series.fillna(val) of one cell.
fillna(c, val) == IF isna(c) THEN val ELSE c

\* Series.astype(int) of one (non-null) numeric cell: truncation toward 0.
astype_int(c) ==
    IF c.n >= 0 THEN Num((c.n \div 10) * 10) ELSE Num(-(((-c.n) \div 10) * 10))

\* ------------------------------------------------------------ DataFrames
ColSet(df) == {df.cols[i] : i \in DOMAIN df.cols}

\* df[c] = vals (one value per row): assigns an existing column, or
\* appends a new one.
SetCol(df, c, vals) ==
    [cols |-> IF c \in ColSet(df) THEN df.cols ELSE Append(df.cols, c),
     rows |-> [i \in DOMAIN df.rows |->
                [d \in ColSet(df) \cup {c} |->
                    IF d = c THEN vals[i] ELSE df.rows[i][d]]]]

\* Series.apply(F) and the like: one value per row of df.
PerRow(df, F(_)) == [i \in DOMAIN df.rows |-> F(df.rows[i])]

\* df.empty: no rows or no columns.
IsEmpty(df) == Len(df.rows) = 0 \/ Len(df.cols) = 0

\* ------------------------------------------------------------ the state
VARIABLES
    DEFAULTS,   \* cfg["defaults"]: the Policy, a sequence of [col, val], in
                \* the mapping's iteration order.  Set by the deployment.
    HMAC_KEY,   \* the key of the running process (a key number)
    csv,        \* the file at INPUT_CSV.  Set by the deployment.
    staging,    \* the raw_input table of the staging store, a DataFrame
    processed,  \* the processed_records table: the batches inserted
    metrics,    \* the pipeline_metrics table: the rows inserted
    open,       \* the store connections held open: <<resource, function>>
    mode,       \* args.mode of the running process
    pc,         \* where main() is
    run_id,     \* main's run_id
    n,          \* main's n, the rows ingest returned
    df,         \* main's df, the batch read from staging
    df_t,       \* main's df_t[target_cols], the batch handed to the write
    rows,       \* main's rows, the count write_to_clickhouse returned
    err,        \* the exception that ended the run, or "none"
    executed,   \* the stages the running process has entered, in order
    runs,       \* how many runs have started
    dag_runs,   \* the scheduler's runs of csv_to_clickhouse_elt, oldest first
    clock       \* the scheduler's time, in minutes

\* The state of the pipeline and the state of the scheduler.
etl_vars == <<DEFAULTS, HMAC_KEY, csv, staging, processed, metrics, open, mode,
              pc, run_id, n, df, df_t, rows, err, executed, runs>>
sched_vars == <<dag_runs, clock>>

vars == <<DEFAULTS, HMAC_KEY, csv, staging, processed, metrics, open, mode,
          pc, run_id, n, df, df_t, rows, err, executed, runs, dag_runs, clock>>

\* ---------------------------------------------------------- the columns
target_cols == <<"id", "pickup_datetime", "dropoff_datetime",
                 "passenger_count", "trip_distance", "rate_code",
                 "store_and_fwd", "payment_type", "fare_amount">>
TargetSet == {target_cols[i] : i \in DOMAIN target_cols}
\* A column of the source that the analytical store does not have.
ExtraCol == "vendor_id"
\* Every column of the model, in one fixed order (the order in which a
\* schema's columns are laid out).
AllCols == target_cols \o <<ExtraCol>>

\* DEFAULTS.get(c): the default of column c, or None.
HasDefault(defaults, c) == \E i \in DOMAIN defaults : defaults[i].col = c
DefaultOf(defaults, c) ==
    IF HasDefault(defaults, c)
    THEN defaults[CHOOSE i \in DOMAIN defaults : defaults[i].col = c].val
    ELSE Null

\* ------------------------------------------------------------ transform
\* hmac_hash with a digest that also depends on the run: a salted hash.
hmac_hash_salted(value) ==
    IF isna(value) THEN Null ELSE Tok(HMAC_KEY * 100 + runs, PyStr(value))

hmac_hash(value) ==
    IF isna(value) THEN Null ELSE Tok(HMAC_KEY, PyStr(value))

RECURSIVE fill_defaults_from(_, _, _)
fill_defaults_from(d, defaults, i) ==
    IF i > Len(defaults) THEN d
    ELSE LET col == defaults[i].col
             val == defaults[i].val
             Filled(r) == fillna(r[col], val)
             Const(r) == val
         IN fill_defaults_from(
                IF col \in ColSet(d) THEN SetCol(d, col, PerRow(d, Filled))
                                     ELSE SetCol(d, col, PerRow(d, Const)),
                defaults, i + 1)

fill_defaults(d, defaults) == fill_defaults_from(d, defaults, 1)

\* Lines 56-59 of transform_df: the id column.
WithId(d) ==
    LET Synth(r) == hmac_hash(Str(PyStr(r["pickup_datetime"]) \o "|"
                                  \o PyStr(r["trip_distance"])))
        Rehash(r) == IF ~isna(r["id"]) THEN hmac_hash(r["id"]) ELSE Null
    IN IF "id" \notin ColSet(d) THEN SetCol(d, "id", PerRow(d, Synth))
                                ELSE SetCol(d, "id", PerRow(d, Rehash))

\* Lines 62-64: one datetime column, when the batch has it.
WithDatetime(d, c, defaults) ==
    LET Parsed(r) == fillna(to_datetime(r[c]),
                            to_datetime(DefaultOf(defaults, c)))
    IN IF c \in ColSet(d) THEN SetCol(d, c, PerRow(d, Parsed)) ELSE d

\* The coercion with a failure turned into 0 instead of the default.
WithNumeric_zero_on_failure(d, c, defaults) ==
    LET Coerced(r) == fillna(to_numeric(r[c]), Num(0))
    IN IF c \in ColSet(d) THEN SetCol(d, c, PerRow(d, Coerced)) ELSE d

\* Lines 67-68 and 73-74: one float column, when the batch has it.
WithNumeric(d, c, defaults) ==
    LET Coerced(r) == fillna(to_numeric(r[c]), DefaultOf(defaults, c))
    IN IF c \in ColSet(d) THEN SetCol(d, c, PerRow(d, Coerced)) ELSE d

\* Lines 70-71: the integer column, when the batch has it.
WithInteger(d, c, defaults) ==
    LET Coerced(r) ==
            astype_int(fillna(to_numeric(r[c]), DefaultOf(defaults, c)))
    IN IF c \in ColSet(d) THEN SetCol(d, c, PerRow(d, Coerced)) ELSE d

\* The columns transform_df normalises with .fillna(DEFAULTS.get(c)).
NormalisedCols == {"pickup_datetime", "dropoff_datetime", "trip_distance",
                   "passenger_count", "fare_amount"}

\* The exception transform_df raises on batch d, or "none".  Line 57 reads
\* df["pickup_datetime"] and df["trip_distance"]: a KeyError when the
\* batch has no id and, after fill_defaults, lacks either.  fillna(None)
\* (a normalised column of the batch with no default) is a ValueError
\* ("Must specify a fill 'value' or 'method'"), whatever the values.
transform_error(d, defaults) ==
    LET f == fill_defaults(d, defaults)
    IN IF "id" \notin ColSet(f)
          /\ ~({"pickup_datetime", "trip_distance"} \subseteq ColSet(f))
       THEN "KeyError"
       ELSE IF \E c \in NormalisedCols :
                    c \in ColSet(f) /\ ~HasDefault(defaults, c)
            THEN "ValueError"
            ELSE "none"

\* transform_df(df) when it raises nothing.
transform_df(d, defaults) ==
    LET a == WithId(fill_defaults(d, defaults))
        b == WithDatetime(a, "pickup_datetime", defaults)
        c == WithDatetime(b, "dropoff_datetime", defaults)
        e == WithNumeric(c, "trip_distance", defaults)
        f == WithInteger(e, "passenger_count", defaults)
    IN WithNumeric(f, "fare_amount", defaults)

\* Lines 148-152 of main: add the target columns the batch lacks, as None,
\* then select df_t[target_cols].
project(d) ==
    [cols |-> target_cols,
     rows |-> [i \in DOMAIN d.rows |->
                [c \in TargetSet |->
                    IF c \in ColSet(d) THEN d.rows[i][c] ELSE Null]]]

\* ------------------------------------------------------------ the inputs
\* Policies a deployment may configure in config.yml (cfg.get("defaults",
\* {}) is empty when the file has no defaults).
PolicyFull ==
    <<[col |-> "pickup_datetime", val |-> Str("1970-01-01 00:00")],
      [col |-> "dropoff_datetime", val |-> Str("1970-01-01 00:00")],
      [col |-> "trip_distance", val |-> Num(10)],
      [col |-> "passenger_count", val |-> Num(10)],
      [col |-> "fare_amount", val |-> Num(25)]>>
PolicyScenario ==
    <<[col |-> "trip_distance", val |-> Num(10)],
      [col |-> "passenger_count", val |-> Num(10)]>>
PolicyWide ==
    <<[col |-> "id", val |-> Str("unknown")],
      [col |-> "rate_code", val |-> Str("1")]>> \o PolicyFull
PolicyNone == <<>>
Policies == {PolicyFull, PolicyScenario, PolicyWide, PolicyNone}

\* The keys the environment variable may hold.
Keys == {1, 2}

\* Kinds of source rows; CellOf gives the value of each column in each.
Profiles == {"clean", "nulls", "junk", "odd", "text"}

IdCell(p) ==
    CASE p = "clean" -> Str("u1")
      [] p = "junk" -> Str("u2")
      [] p = "text" -> Str("u1")
      [] OTHER -> Null
PickupCell(p) ==
    CASE p \in {"clean", "odd"} -> Str("2024-03-01 10:00")
      [] p = "junk" -> Str("not a date")
      [] OTHER -> Null
DropoffCell(p) ==
    CASE p = "clean" -> Str("2024-03-01 10:30")
      [] p \in {"odd", "text"} -> Str("not a date")
      [] OTHER -> Null
PassengerCell(p) ==
    CASE p = "clean" -> Num(10)
      [] p = "odd" -> Str("2.7")
      [] p = "text" -> Str("abc")
      [] OTHER -> Null
DistanceCell(p) ==
    CASE p = "clean" -> Num(27)
      [] p = "junk" -> Str("abc")
      [] p = "odd" -> Str("2.7")
      [] p = "text" -> Str("0")
      [] OTHER -> Null
FareCell(p) ==
    CASE p = "clean" -> Num(125)
      [] p = "junk" -> Str("abc")
      [] p = "odd" -> Str("0")
      [] OTHER -> Null
OtherCell(p) == IF p \in {"clean", "odd"} THEN Str("N") ELSE Null

CellOf(c, p) ==
    CASE c = "id" -> IdCell(p)
      [] c = "pickup_datetime" -> PickupCell(p)
      [] c = "dropoff_datetime" -> DropoffCell(p)
      [] c = "passenger_count" -> PassengerCell(p)
      [] c = "trip_distance" -> DistanceCell(p)
      [] c = "fare_amount" -> FareCell(p)
      [] OTHER -> OtherCell(p)

\* The columns of schema S (a set of column names), laid out in order.
ColsOf(S) == SelectSeq(AllCols, LAMBDA c : c \in S)
RowOf(S, p) == [c \in S |-> CellOf(c, p)]

\* Sequences over set X of length lo..hi.
SeqsOf(X, lo, hi) == UNION {[1..k -> X] : k \in lo..hi}

\* The batches with columns S and lo..hi rows of the kinds P.
Batches(S, P, lo, hi) ==
    {[cols |-> ColsOf(S), rows |-> [i \in DOMAIN ps |-> RowOf(S, ps[i])]] :
        ps \in SeqsOf(P, lo, hi)}

NoFrame == [cols |-> <<>>, rows |-> <<>>]

\* The kinds of rows of the CSV files the run controller is explored with.
CsvProfiles == {"clean", "junk"}

\* What may be at INPUT_CSV: no file, a file of zero bytes, or a file with
\* the header of the staging table and 0..MaxCsvRows rows.
CsvFiles(S) ==
    {[kind |-> "missing", df |-> NoFrame], [kind |-> "zero_bytes", df |-> NoFrame]}
    \cup {[kind |-> "file", df |-> b] : b \in Batches(S, CsvProfiles, 0, MaxCsvRows)}

\* The schemas of raw_input the run controller is explored with: all ten
\* columns; no id; no id and no pickup_datetime; only foreign columns.
RunSchemas ==
    {TargetSet \cup {ExtraCol},
     {"pickup_datetime", "trip_distance", "passenger_count"},
     {"trip_distance", "fare_amount", ExtraCol}}

\* ------------------------------------------------------- store adapters
Modes == {"ingest", "transform", "full", "clear"}

\* uuid.uuid4() as run number k starts: a fresh identifier.  The run counter
\* stands for the 122 random bits; a collision is not modelled.
\* A run identifier kept from the process before, once there is one.
uuid4_stale == IF run_id = 0 THEN 1 ELSE run_id

uuid4 == runs + 1

\* The rows write_metric inserts into pipeline_metrics (run_time, the wall
\* clock, is left out).  by is history: the run that made the call.
metric_rows_twice(rid, stage, rws, notes) ==
    <<[run_id |-> rid, stage |-> stage, rows |-> rws, notes |-> notes,
       by |-> runs],
      [run_id |-> rid, stage |-> stage, rows |-> rws, notes |-> notes,
       by |-> runs]>>

metric_rows(rid, stage, rws, notes) ==
    <<[run_id |-> rid, stage |-> stage, rows |-> rws, notes |-> notes,
       by |-> runs]>>

\* The connections a function acquires and the ones it closes before it
\* returns or raises.  st is the stage the call belongs to.
PgHeld(st) == {[res |-> "pg_conn", stage |-> st], [res |-> "pg_cur", stage |-> st]}
PgConnOnly(st) == {[res |-> "pg_conn", stage |-> st]}
ChHeld(st) == {[res |-> "ch_client", stage |-> st]}

\* Lines 95-97 and 126-128, the finally blocks: cur.close(); conn.close().
closed_by_finally(st) == PgHeld(st)
\* Lines 104-105: conn.close().
closed_by_read(st) == PgConnOnly(st)
\* write_to_clickhouse and write_metric never call client.disconnect().
closed_by_client(st) == {}

\* The step of main after the ingest block (lines 140, 155, 158).
AfterIngest(m) == IF m \in {"transform", "full"} THEN "read" ELSE "done"
\* The first step of a main whose full mode goes straight to the transform.
FirstStep_full_skips_ingest(m) ==
    CASE m = "ingest" -> "ingest"
      [] m \in {"transform", "full"} -> "read"
      [] m = "clear" -> "clear"

\* The first step of main (lines 137, 140, 155).
FirstStep(m) ==
    CASE m \in {"ingest", "full"} -> "ingest"
      [] m = "transform" -> "read"
      [] m = "clear" -> "clear"

\* write_metric inside a try/except that swallows the failure of the insert.
WriteMetric_swallowing(st, stage, rws, notes, next) ==
    /\ \/ /\ metrics' = metrics \o metric_rows(run_id, stage, rws, notes)
          /\ open' = (open \cup ChHeld(st)) \ closed_by_client(st)
          /\ pc' = next
          /\ err' = err
       \/ /\ metrics' = metrics
          /\ open' = open
          /\ pc' = next
          /\ err' = err

\* write_metric(run_id, stage, rws, notes), then main goes on at next.  The
\* insert may fail (the driver then drops its connection and raises).
WriteMetric(st, stage, rws, notes, next) ==
    /\ \/ /\ metrics' = metrics \o metric_rows(run_id, stage, rws, notes)
          /\ open' = (open \cup ChHeld(st)) \ closed_by_client(st)
          /\ pc' = next
          /\ err' = err
       \/ /\ metrics' = metrics
          /\ open' = open
          /\ pc' = "failed"
          /\ err' = "AnalyticalStoreError"

\* ------------------------------------------------------------ the actions
Init ==
    /\ DEFAULTS \in Policies
    /\ HMAC_KEY = 1
    /\ \E S \in RunSchemas :
        /\ staging = [cols |-> ColsOf(S), rows |-> <<>>]
        /\ csv \in CsvFiles(S)
    /\ processed = <<>>
    /\ metrics = <<>>
    /\ open = {}
    /\ mode = "full"
    /\ pc = "idle"
    /\ run_id = 0
    /\ n = 0
    /\ df = NoFrame
    /\ df_t = NoFrame
    /\ rows = 0
    /\ err = "none"
    /\ executed = <<>>
    /\ runs = 0
    /\ dag_runs = <<>>
    /\ clock = 0

\* A process starts: lines 16-37 (the key is read from the environment)
\* and 131-135 of main.  The previous process, if any, has exited, and its
\* connections went with it.
Start ==
    /\ pc \in {"idle", "done", "failed"}
    /\ UNCHANGED sched_vars
    /\ runs < MaxRuns
    /\ \E m \in Modes :
        /\ mode' = m
        /\ pc' = FirstStep(m)
    /\ HMAC_KEY' \in Keys
    /\ run_id' = uuid4
    /\ runs' = runs + 1
    /\ n' = 0
    /\ df' = NoFrame
    /\ df_t' = NoFrame
    /\ rows' = 0
    /\ err' = "none"
    /\ executed' = <<>>
    /\ open' = {}
    /\ UNCHANGED <<DEFAULTS, csv, staging, processed, metrics>>

\* raw_input after an execute_values whose transaction is never committed.
ingest_append_uncommitted(table, batch) ==
    [cols |-> table.cols, rows |-> table.rows]

\* raw_input after execute_values and the commit.
ingest_append(table, batch) ==
    [cols |-> table.cols, rows |-> table.rows \o batch.rows]

\* n = ingest_csv_to_postgres(INPUT_CSV), lines 79-98.
Ingest ==
    /\ pc = "ingest"
    /\ UNCHANGED sched_vars
    /\ executed' = Append(executed, "ingest")
    /\ \/ \* line 80: no file
          /\ csv.kind = "missing"
          /\ n' = 0 /\ pc' = "ingest_metric"
          /\ UNCHANGED <<staging, open, err>>
       \/ \* line 83: pd.read_csv of a file of zero bytes raises
          /\ csv.kind = "zero_bytes"
          /\ pc' = "failed" /\ err' = "EmptyDataError"
          /\ UNCHANGED <<staging, open, n>>
       \/ \* line 85: psycopg2.connect fails
          /\ csv.kind = "file"
          /\ pc' = "failed" /\ err' = "StagingStoreError"
          /\ UNCHANGED <<staging, open, n>>
       \/ \* lines 91-93 fail: the insert or the commit
          /\ csv.kind = "file"
          /\ Len(csv.df.rows) > 0
          /\ pc' = "failed" /\ err' = "StagingStoreError"
          /\ open' = (open \cup PgHeld("ingest")) \ closed_by_finally("ingest")
          /\ UNCHANGED <<staging, n>>
       \/ \* the rows, if any, are inserted and committed
          /\ csv.kind = "file"
          /\ staging' = IF Len(csv.df.rows) > 0
                        THEN ingest_append(staging, csv.df) ELSE staging
          /\ n' = Len(csv.df.rows)
          /\ pc' = "ingest_metric"
          /\ open' = (open \cup PgHeld("ingest")) \ closed_by_finally("ingest")
          /\ err' = err
    /\ UNCHANGED <<DEFAULTS, HMAC_KEY, csv, processed, metrics, mode, run_id,
                   df, df_t, rows, runs>>

\* Line 139.
IngestMetric ==
    /\ pc = "ingest_metric"
    /\ UNCHANGED sched_vars
    /\ WriteMetric("ingest", "ingest", n, "CSV -> Postgres", AfterIngest(mode))
    /\ UNCHANGED <<DEFAULTS, HMAC_KEY, csv, staging, processed, mode, run_id,
                   n, df, df_t, rows, executed, runs>>

\* What pd.read_sql("SELECT * FROM raw_input") returns.
read_sql(table) == table

\* What the staging table holds after read_from_postgres.
staging_after_read_consumed(table) == [cols |-> table.cols, rows |-> <<>>]

staging_after_read(table) == table

\* df = read_from_postgres(), lines 100-106 and 141-142.
Read ==
    /\ pc = "read"
    /\ UNCHANGED sched_vars
    /\ executed' = Append(executed, "transform")
    /\ \/ \* connect or the query fails
          /\ pc' = "failed" /\ err' = "StagingStoreError"
          /\ open' = open
          /\ UNCHANGED <<df, staging>>
       \/ /\ df' = read_sql(staging)
          /\ staging' = staging_after_read(staging)
          /\ open' = (open \cup PgConnOnly("transform")) \ closed_by_read("transform")
          /\ pc' = IF IsEmpty(df') THEN "empty_metric" ELSE "transform"
          /\ err' = err
    /\ UNCHANGED <<DEFAULTS, HMAC_KEY, csv, processed, metrics, mode, run_id,
                   n, df_t, rows, runs>>

\* Line 145, the return after the zero-row Metric: main ends.
AfterEmptyMetric_no_return == "transform"

AfterEmptyMetric == "done"

\* Lines 143-145: the zero-row Metric, then return.
EmptyMetric ==
    /\ pc = "empty_metric"
    /\ UNCHANGED sched_vars
    /\ WriteMetric("transform", "transform", 0, "no rows", AfterEmptyMetric)
    /\ UNCHANGED <<DEFAULTS, HMAC_KEY, csv, staging, processed, mode, run_id,
                   n, df, df_t, rows, executed, runs>>

\* Lines 146-151: df_t = transform_df(df), then the target columns.
Transform ==
    /\ pc = "transform"
    /\ UNCHANGED sched_vars
    /\ \/ /\ transform_error(df, DEFAULTS) # "none"
          /\ pc' = "failed" /\ err' = transform_error(df, DEFAULTS)
          /\ df_t' = df_t
       \/ /\ transform_error(df, DEFAULTS) = "none"
          /\ df_t' = project(transform_df(df, DEFAULTS))
          /\ pc' = "write" /\ err' = err
    /\ UNCHANGED <<DEFAULTS, HMAC_KEY, csv, staging, processed, metrics, open,
                   mode, run_id, n, df, rows, executed, runs>>

\* The batches write_to_clickhouse inserts into processed_records (lines
\* 110-113): none when the batch is empty.  src, key and by are history:
\* the batch read from staging, the key and the run.
inserted(batch) ==
    IF IsEmpty(batch) THEN <<>>
    ELSE <<[df |-> batch, src |-> df, key |-> HMAC_KEY, by |-> runs]>>

\* rows = write_to_clickhouse(df_t[target_cols]), lines 108-114 and 152.
Write ==
    /\ pc = "write"
    /\ UNCHANGED sched_vars
    /\ \/ /\ ~IsEmpty(df_t)
          /\ pc' = "failed" /\ err' = "AnalyticalStoreError"
          /\ UNCHANGED <<processed, rows, open>>
       \/ /\ processed' = processed \o inserted(df_t)
          /\ rows' = IF IsEmpty(df_t) THEN 0 ELSE Len(df_t.rows)
          /\ open' = IF IsEmpty(df_t) THEN open
                     ELSE (open \cup ChHeld("transform")) \ closed_by_client("transform")
          /\ pc' = "transform_metric" /\ err' = err
    /\ UNCHANGED <<DEFAULTS, HMAC_KEY, csv, staging, metrics, mode, run_id, n,
                   df, df_t, executed, runs>>

\* Line 153.
TransformMetric ==
    /\ pc = "transform_metric"
    /\ UNCHANGED sched_vars
    /\ WriteMetric("transform", "transform", rows, "Postgres -> ClickHouse", "done")
    /\ UNCHANGED <<DEFAULTS, HMAC_KEY, csv, staging, processed, mode, run_id,
                   n, df, df_t, rows, executed, runs>>

\* What TRUNCATE TABLE raw_input leaves.
truncated_kept(table) == table

truncated(table) == [cols |-> table.cols, rows |-> <<>>]

\* clear_staging_table(), lines 120-128 and 155-157.
Clear ==
    /\ pc = "clear"
    /\ UNCHANGED sched_vars
    /\ executed' = Append(executed, "clear")
    /\ \/ \* connect fails
          /\ pc' = "failed" /\ err' = "StagingStoreError"
          /\ UNCHANGED <<staging, open>>
       \/ \* the TRUNCATE or the commit fails
          /\ pc' = "failed" /\ err' = "StagingStoreError"
          /\ open' = (open \cup PgHeld("clear")) \ closed_by_finally("clear")
          /\ staging' = staging
       \/ /\ staging' = truncated(staging)
          /\ open' = (open \cup PgHeld("clear")) \ closed_by_finally("clear")
          /\ pc' = "done" /\ err' = err
    /\ UNCHANGED <<DEFAULTS, HMAC_KEY, csv, processed, metrics, mode, run_id,
                   n, df, df_t, rows, runs>>

Next ==
    \/ Start
    \/ Ingest
    \/ IngestMetric
    \/ Read
    \/ EmptyMetric
    \/ Transform
    \/ Write
    \/ TransformMetric
    \/ Clear

Spec == Init /\ [][Next]_vars

\* ------------------------------------------- the transform on its own
\* The schemas the transform is explored with: every subset of the six
\* columns transform_df names, with none, some or all of the others.
NamedCols == {"id", "pickup_datetime", "dropoff_datetime", "passenger_count",
              "trip_distance", "fare_amount"}
OtherCols == {{}, {"rate_code", ExtraCol},
              {"rate_code", "store_and_fwd", "payment_type", ExtraCol}}
TransformSchemas == {A \cup B : A \in SUBSET NamedCols, B \in OtherCols} \ {{}}

\* The state of a transform run (the first run) right after
\* read_from_postgres returned a batch of 1..MaxBatchRows rows.
TInit ==
    /\ DEFAULTS \in Policies
    /\ HMAC_KEY \in Keys
    /\ csv = [kind |-> "missing", df |-> NoFrame]
    /\ \E S \in TransformSchemas :
        staging \in Batches(S, Profiles, 1, MaxBatchRows)
    /\ df = staging
    /\ processed = <<>>
    /\ metrics = <<>>
    /\ open = {}
    /\ mode = "transform"
    /\ pc = "transform"
    /\ run_id = 1
    /\ n = 0
    /\ df_t = NoFrame
    /\ rows = 0
    /\ err = "none"
    /\ executed = <<"transform">>
    /\ runs = 1
    /\ dag_runs = <<>>
    /\ clock = 0

TNext == Transform

TSpec == TInit /\ [][TNext]_vars

\* ------------------------------------------------- the scheduled pipeline
\* csv_elt_dag.py declares the DAG csv_to_clickhouse_elt; the scheduler runs
\* it as the declaration says.  A run of the DAG is [state, ti], ti giving
\* each task's instance [state, try_number, end_date].  The schedule comes
\* from the environment (line 6), so a run may be created at any time.
ingest == "ingest_csv_to_postgres"
transform == "transform_and_load"
Tasks == {ingest, transform}
\* Line 20.
max_active_runs == 1
\* Line 10.
retries == 1
\* Line 11, in minutes.
retry_delay == 5

\* A DAG whose tasks have no dependency.
upstream_none(t) == {}

\* Line 34, ingest >> transform: the tasks that must have succeeded before
\* task t starts (the default trigger rule).
upstream(t) == IF t = transform THEN {ingest} ELSE {}

NoInstance == [state |-> "none", try_number |-> 0, end_date |-> 0]
NewRun == [state |-> "queued", ti |-> [t \in Tasks |-> NoInstance]]
ActiveRuns == {r \in DOMAIN dag_runs : dag_runs[r].state = "running"}
Finished == {"success", "failed", "upstream_failed"}
\* The state of a task instance that failed on try number k: retried while
\* k <= retries.
after_failure(k) == IF k <= retries THEN "up_for_retry" ELSE "failed"

DagInit ==
    /\ DEFAULTS = PolicyFull
    /\ HMAC_KEY = 1
    /\ csv = [kind |-> "missing", df |-> NoFrame]
    /\ staging = [cols |-> ColsOf(TargetSet), rows |-> <<>>]
    /\ processed = <<>>
    /\ metrics = <<>>
    /\ open = {}
    /\ mode = "full"
    /\ pc = "idle"
    /\ run_id = 0
    /\ n = 0
    /\ df = NoFrame
    /\ df_t = NoFrame
    /\ rows = 0
    /\ err = "none"
    /\ executed = <<>>
    /\ runs = 0
    /\ dag_runs = <<>>
    /\ clock = 0

\* Time passes.
Tick ==
    /\ clock < MaxClock
    /\ clock' = clock + 1
    /\ UNCHANGED dag_runs
    /\ UNCHANGED etl_vars

\* The schedule (line 17) is due: a run is created, queued.
CreateRun ==
    /\ Len(dag_runs) < MaxDagRuns
    /\ dag_runs' = Append(dag_runs, NewRun)
    /\ UNCHANGED clock
    /\ UNCHANGED etl_vars

\* The oldest queued run becomes active, when fewer than max_active_runs
\* runs are.
StartRun(r) ==
    /\ dag_runs[r].state = "queued"
    /\ \A q \in 1..(r - 1) : dag_runs[q].state # "queued"
    /\ Cardinality(ActiveRuns) < max_active_runs
    /\ dag_runs' = [dag_runs EXCEPT ![r].state = "running"]
    /\ UNCHANGED clock
    /\ UNCHANGED etl_vars

\* Task t of active run r starts: a first try, or a retry once retry_delay
\* has passed since the failure; its upstream tasks have succeeded.
StartTask(r, t) ==
    /\ dag_runs[r].state = "running"
    /\ \/ dag_runs[r].ti[t].state = "none"
       \/ /\ dag_runs[r].ti[t].state = "up_for_retry"
          /\ clock >= dag_runs[r].ti[t].end_date + retry_delay
    /\ \A u \in upstream(t) : dag_runs[r].ti[u].state = "success"
    /\ dag_runs' = [dag_runs EXCEPT
            ![r].ti[t] = [state |-> "running",
                          try_number |-> @.try_number + 1,
                          end_date |-> 0]]
    /\ UNCHANGED clock
    /\ UNCHANGED etl_vars

\* The bash command of task t exits 0.
TaskSucceeds(r, t) ==
    /\ dag_runs[r].ti[t].state = "running"
    /\ dag_runs' = [dag_runs EXCEPT ![r].ti[t].state = "success"]
    /\ UNCHANGED clock
    /\ UNCHANGED etl_vars

\* The bash command of task t exits non-zero.
TaskFails(r, t) ==
    /\ dag_runs[r].ti[t].state = "running"
    /\ dag_runs' = [dag_runs EXCEPT
            ![r].ti[t] = [state |-> after_failure(@.try_number),
                          try_number |-> @.try_number,
                          end_date |-> IF after_failure(@.try_number) = "up_for_retry"
                                       THEN clock ELSE 0]]
    /\ UNCHANGED clock
    /\ UNCHANGED etl_vars

\* A task whose upstream task has failed is not run.
UpstreamFailed(r, t) ==
    /\ dag_runs[r].state = "running"
    /\ dag_runs[r].ti[t].state = "none"
    /\ \E u \in upstream(t) : dag_runs[r].ti[u].state \in {"failed", "upstream_failed"}
    /\ dag_runs' = [dag_runs EXCEPT ![r].ti[t].state = "upstream_failed"]
    /\ UNCHANGED clock
    /\ UNCHANGED etl_vars

\* Every task of the run has finished: the run ends.
FinishRun(r) ==
    /\ dag_runs[r].state = "running"
    /\ \A t \in Tasks : dag_runs[r].ti[t].state \in Finished
    /\ dag_runs' = [dag_runs EXCEPT
            ![r].state = IF \A t \in Tasks : dag_runs[r].ti[t].state = "success"
                         THEN "success" ELSE "failed"]
    /\ UNCHANGED clock
    /\ UNCHANGED etl_vars

DagNext ==
    \/ Tick
    \/ CreateRun
    \/ \E r \in DOMAIN dag_runs : StartRun(r)
    \/ \E r \in DOMAIN dag_runs, t \in Tasks : StartTask(r, t)
    \/ \E r \in DOMAIN dag_runs, t \in Tasks : TaskSucceeds(r, t)
    \/ \E r \in DOMAIN dag_runs, t \in Tasks : TaskFails(r, t)
    \/ \E r \in DOMAIN dag_runs, t \in Tasks : UpstreamFailed(r, t)
    \/ \E r \in DOMAIN dag_runs : FinishRun(r)

DagSpec == DagInit /\ [][DagNext]_vars

\* -------------------------------------------------------------- claims
Range(q) == {q[i] : i \in DOMAIN q}
Stages == {"ingest", "transform", "clear"}
\* The Metrics carrying run identifier rid and stage st.
MetricsOf(rid, st) ==
    {i \in DOMAIN metrics : metrics[i].run_id = rid /\ metrics[i].stage = st}
\* How many times the running process has entered stage st.
ExecCount(st) == Cardinality({i \in DOMAIN executed : executed[i] = st})
\* The steps of main that belong to each stage.
StageSteps(st) ==
    CASE st = "ingest" -> {"ingest", "ingest_metric"}
      [] st = "transform" -> {"read", "empty_metric", "transform", "write",
                              "transform_metric"}
      [] st = "clear" -> {"clear"}
StoreErrors == {"StagingStoreError", "AnalyticalStoreError"}
\* The batches the running process has inserted into processed_records.
WrittenByRun == {i \in DOMAIN processed : processed[i].by = runs}

\* C1 as stated: when a run has completed, every stage it executed (ingest,
\* transform or clear) has exactly one Metric carrying the run's id, and a
\* stage it did not execute has none.
C1_EveryStageOneMetric ==
    pc = "done" =>
        \A st \in Stages : Cardinality(MetricsOf(run_id, st)) = ExecCount(st)

\* C1 as amended: when a run has completed, each ingest and each transform
\* stage it executed has exactly one Metric carrying the run's id (also when
\* the stage processed zero rows), and the clear stage has none.
C1_IngestTransformOneMetric ==
    pc = "done" =>
        /\ \A st \in {"ingest", "transform"} :
                Cardinality(MetricsOf(run_id, st)) = ExecCount(st)
        /\ MetricsOf(run_id, "clear") = {}

\* A full run that completed with zero rows ingested, one Metric per stage.
C1_Witness ==
    /\ pc = "done" /\ mode = "full" /\ n = 0
    /\ executed = <<"ingest", "transform">>
    /\ Cardinality(MetricsOf(run_id, "ingest")) = 1
    /\ Cardinality(MetricsOf(run_id, "transform")) = 1

\* C2: once the transform stage has read zero rows from staging, the run
\* only emits the zero-row Metric and ends: it never reaches the transform,
\* the write or the second Metric, inserts no batch into the analytical
\* store, and when it has completed exactly one Metric of stage "transform"
\* carries its id, with rows 0.
C2_EmptyStagingShortCircuits ==
    ("transform" \in Range(executed) /\ IsEmpty(df)) =>
        /\ pc \in {"empty_metric", "done", "failed"}
        /\ WrittenByRun = {}
        /\ pc = "done" =>
            /\ Cardinality(MetricsOf(run_id, "transform")) = 1
            /\ \A i \in MetricsOf(run_id, "transform") : metrics[i].rows = 0

\* A transform run over an empty staging area that has completed.
C2_Witness ==
    /\ pc = "done" /\ mode = "transform" /\ executed = <<"transform">>
    /\ IsEmpty(df) /\ err = "none"
    /\ Cardinality(MetricsOf(run_id, "transform")) = 1

\* C3 as stated: a connection is held open only while the stage that
\* acquired it is still running.
C3_NoConnectionOutlivesItsStage ==
    \A o \in open : pc \in StageSteps(o.stage)

\* C4 as stated: on a non-empty staged batch the transform never aborts
\* over a missing column, and the batch handed to the write has exactly the
\* nine target columns, in order.
C4_ProjectionNeverAborts ==
    /\ err # "KeyError"
    /\ pc = "write" =>
        /\ df_t.cols = target_cols
        /\ \A i \in DOMAIN df_t.rows : DOMAIN df_t.rows[i] = TargetSet

NumericCols == {"trip_distance", "passenger_count", "fare_amount"}
\* What the claim expects of staged value v of numeric column c.
C5_Expected(c, v) ==
    IF isna(to_numeric(v)) THEN DefaultOf(DEFAULTS, c) ELSE to_numeric(v)

SourceEmpty ==
    \/ csv.kind \in {"missing", "zero_bytes"}
    \/ csv.kind = "file" /\ Len(csv.df.rows) = 0

\* C6 as stated: once ingest has run on a missing or empty source, nothing
\* but a store failure ends the run: ingest returned 0, the Metric (ingest,
\* rows 0) is emitted and, in full mode, the transform stage is executed.
C6_EmptySourceIsSoft ==
    (SourceEmpty /\ "ingest" \in Range(executed)) =>
        /\ err \in StoreErrors \cup {"none"}
        /\ n = 0
        /\ (err = "none" /\ pc # "ingest_metric") =>
            /\ Cardinality(MetricsOf(run_id, "ingest")) = 1
            /\ \A i \in MetricsOf(run_id, "ingest") : metrics[i].rows = 0
        /\ (pc = "done" /\ mode = "full") => "transform" \in Range(executed)

\* C7: a run in clear mode executes no stage but clear, emits no Metric,
\* inserts nothing into the analytical store, and when it has completed the
\* staging area is empty.
C7_ClearOnlyTruncates ==
    (mode = "clear" /\ pc # "idle") =>
        /\ Range(executed) \subseteq {"clear"}
        /\ \A i \in DOMAIN metrics : metrics[i].by # runs
        /\ WrittenByRun = {}
        /\ pc = "done" => staging.rows = <<>>

\* A completed clear run after a run that had staged rows.
C7_Witness ==
    /\ pc = "done" /\ mode = "clear" /\ executed = <<"clear">>
    /\ \E i \in DOMAIN metrics : metrics[i].stage = "ingest" /\ metrics[i].rows > 0
    /\ staging.rows = <<>>

\* C8: a step changes the staging area only as the ingest stage appending
\* rows after the ones staged (which stay as they are) or as the clear
\* stage emptying it; no step of the transform stage changes it.
C8_StagingOnlyAppendedOrTruncated ==
    [][staging' # staging =>
        /\ staging'.cols = staging.cols
        /\ \/ /\ pc = "ingest"
              /\ Len(staging'.rows) > Len(staging.rows)
              /\ SubSeq(staging'.rows, 1, Len(staging.rows)) = staging.rows
           \/ /\ pc = "clear"
              /\ staging'.rows = <<>>]_vars

\* A completed transform of staged rows, the staging area still what was
\* read.
C8_Witness ==
    /\ pc = "done" /\ "transform" \in Range(executed)
    /\ rows > 0 /\ Len(staging.rows) > 0 /\ staging = df
    /\ WrittenByRun # {}

\* C9: two transform runs that read the same staged batch under the same
\* key wrote the same id token for every record.
C9_SameIdOnRerun ==
    \A i, j \in DOMAIN processed :
        (processed[i].src = processed[j].src
            /\ processed[i].key = processed[j].key) =>
        \A r \in DOMAIN processed[i].df.rows :
            processed[i].df.rows[r]["id"] = processed[j].df.rows[r]["id"]

\* Two runs that transformed the same staged batch under the same key, with
\* ids that are tokens.
C9_Witness ==
    \E i, j \in DOMAIN processed :
        /\ processed[i].by # processed[j].by
        /\ processed[i].src = processed[j].src
        /\ processed[i].key = processed[j].key
        /\ \E r \in DOMAIN processed[i].df.rows :
            processed[i].df.rows[r]["id"].k = "tok"

\* C10: the Metrics of the running process carry its run_id, and two
\* Metrics carry the same identifier exactly when the same run emitted them.
C10_RunIdPerRun ==
    /\ \A i \in DOMAIN metrics :
        metrics[i].by = runs => metrics[i].run_id = run_id
    /\ \A i, j \in DOMAIN metrics :
        (metrics[i].by = metrics[j].by) <=> (metrics[i].run_id = metrics[j].run_id)

\* Two Metrics of one run and a Metric of another run.
C10_Witness ==
    \E i, j, k \in DOMAIN metrics :
        /\ i # j /\ metrics[i].by = metrics[j].by
        /\ metrics[k].by # metrics[i].by

\* The staged value of column c in row i of batch d; null when the batch
\* has no such column.
StagedCell(d, i, c) == IF c \in ColSet(d) THEN d.rows[i][c] ELSE Null
\* The value the synthesized id is made of: the staged value, or the
\* Policy default where that is null.
C11_Part(d, i, c) == fillna(StagedCell(d, i, c), DefaultOf(DEFAULTS, c))

\* C11 as stated: in the batch handed to the write, when the staged batch
\* had no id column, every record's id is the (non-null) token of its pickup_datetime
\* and trip_distance joined by "|", and two records with the same staged
\* pickup_datetime and the same staged trip_distance have the same id.
C11_SynthesizedIdByPickupAndDistance ==
    (pc = "write" /\ "id" \notin ColSet(df)) =>
        /\ \A i \in DOMAIN df.rows :
            df_t.rows[i]["id"] =
                Tok(HMAC_KEY, PyStr(C11_Part(df, i, "pickup_datetime")) \o "|"
                              \o PyStr(C11_Part(df, i, "trip_distance")))
        /\ \A i, j \in DOMAIN df.rows :
            (StagedCell(df, i, "pickup_datetime") = StagedCell(df, j, "pickup_datetime")
                /\ StagedCell(df, i, "trip_distance") = StagedCell(df, j, "trip_distance"))
            => (df_t.rows[i]["id"] = df_t.rows[j]["id"]
                /\ df_t.rows[i]["id"].k = "tok")

\* C12 as stated: in the batch handed to the write, when the staged batch
\* had an id column, a record whose staged id was null has a null id and a
\* record whose staged id was not null has the token of that id.
C12_NullIdStaysNull ==
    (pc = "write" /\ "id" \in ColSet(df)) =>
        \A i \in DOMAIN df.rows :
            IF isna(df.rows[i]["id"])
            THEN isna(df_t.rows[i]["id"])
            ELSE df_t.rows[i]["id"] = Tok(HMAC_KEY, PyStr(df.rows[i]["id"]))

\* The steps of main at which the batch read from staging is in df.
AfterRead == {"empty_metric", "transform", "write", "transform_metric", "done"}
\* The last k elements of sequence q.
LastRows(q, k) == SubSeq(q, Len(q) - k + 1, Len(q))

\* C13: a run in ingest mode enters only the ingest stage, a run in
\* transform mode only the transform stage, and a run in full mode the
\* ingest stage and then the transform stage, each once when the run
\* completes.  In full mode the transform stage is entered only after the
\* ingest Metric of the run is written, and the batch it reads ends with
\* the n rows this run's ingest appended.
C13_ModeSelectsStagesInOrder ==
    /\ mode = "ingest" =>
        /\ executed \in {<<>>, <<"ingest">>}
        /\ pc = "done" => executed = <<"ingest">>
    /\ mode = "transform" =>
        /\ executed \in {<<>>, <<"transform">>}
        /\ pc = "done" => executed = <<"transform">>
    /\ (mode = "full" /\ pc # "idle") =>
        /\ executed \in {<<>>, <<"ingest">>, <<"ingest", "transform">>}
        /\ pc = "done" => executed = <<"ingest", "transform">>
        /\ "transform" \in Range(executed) =>
            /\ Cardinality(MetricsOf(run_id, "ingest")) = 1
            /\ (pc \in AfterRead /\ n > 0) =>
                /\ Len(df.rows) >= n
                /\ LastRows(df.rows, n) = csv.df.rows

\* A completed full run whose ingest appended rows to a staging area that
\* already held rows, and whose transform read them all.
C13_Witness ==
    /\ pc = "done" /\ mode = "full" /\ err = "none"
    /\ executed = <<"ingest", "transform">>
    /\ n > 0 /\ Len(df.rows) > n
    /\ LastRows(df.rows, n) = csv.df.rows

\* The number of records the running process has inserted into
\* processed_records.
WrittenRows ==
    IF WrittenByRun = {} THEN 0
    ELSE Len(processed[CHOOSE i \in WrittenByRun : TRUE].df.rows)

\* C14: the count n that ingest returns is the number of rows by which the
\* staging area grew in that ingest, and the ingest Metric of the run
\* carries n; the transform Metric of the run carries the number of records
\* the run inserted into the analytical store, which is the number of rows
\* of the batch read from staging.
C14_MetricCountsAreRowsProcessed ==
    /\ [][(pc = "ingest" /\ pc' = "ingest_metric") =>
            n' = Len(staging'.rows) - Len(staging.rows)]_vars
    /\ [](/\ \A i \in MetricsOf(run_id, "ingest") : metrics[i].rows = n
          /\ Cardinality(WrittenByRun) <= 1
          /\ \A i \in MetricsOf(run_id, "transform") :
                /\ metrics[i].rows = WrittenRows
                /\ metrics[i].rows = Len(df.rows))

\* A completed full run that ingested rows and wrote at least as many
\* records, with both Metrics carrying those counts.
C14_Witness ==
    /\ pc = "done" /\ mode = "full" /\ n > 0
    /\ \E i \in MetricsOf(run_id, "ingest") : metrics[i].rows = n
    /\ \E i \in MetricsOf(run_id, "transform") :
        metrics[i].rows = WrittenRows /\ metrics[i].rows >= n

\* C15: a store failure ends the run as failed; the stage in which it
\* happened (the last one entered) has no Metric of the run; in full mode
\* the transform stage is entered only when the ingest stage has completed
\* with its Metric; and a failed run takes no further step (the next step
\* is the start of another run).
C15_StoreFailureIsFatal ==
    /\ [](/\ err \in StoreErrors => pc = "failed"
          /\ (pc = "failed" /\ err \in StoreErrors) =>
                /\ executed # <<>>
                /\ MetricsOf(run_id, executed[Len(executed)]) = {}
          /\ (mode = "full" /\ "transform" \in Range(executed)) =>
                Cardinality(MetricsOf(run_id, "ingest")) = 1)
    /\ [][pc = "failed" =>
            (runs' = runs + 1 /\ run_id' # run_id /\ metrics' = metrics
             /\ staging' = staging /\ processed' = processed)]_vars

\* A full run whose insert into the analytical store failed after ingest
\* had completed: one ingest Metric, no transform Metric, nothing written.
C15_Witness ==
    /\ pc = "failed" /\ err = "AnalyticalStoreError" /\ mode = "full"
    /\ executed = <<"ingest", "transform">>
    /\ ~IsEmpty(df_t) /\ WrittenByRun = {}
    /\ Cardinality(MetricsOf(run_id, "ingest")) = 1
    /\ MetricsOf(run_id, "transform") = {}

\* The task instances that are running, over all runs of the DAG.
RunningTasks ==
    {<<r, t>> \in (DOMAIN dag_runs) \X Tasks : dag_runs[r].ti[t].state = "running"}

\* C16: at most one run of the DAG is active at any time; the transform
\* task of a run has started only if the ingest task of that run has
\* succeeded; no task instance is tried more than twice, and a second try
\* starts no sooner than 5 minutes after the first one failed; at most one
\* task instance, over all runs, is running at any time.
C16_SchedulerSerializes ==
    /\ [](/\ Cardinality(ActiveRuns) <= 1
          /\ \A r \in DOMAIN dag_runs :
                /\ dag_runs[r].ti[transform].try_number > 0 =>
                        dag_runs[r].ti[ingest].state = "success"
                /\ \A t \in Tasks : dag_runs[r].ti[t].try_number <= 2
          /\ Cardinality(RunningTasks) <= 1)
    /\ [][\A r \in DOMAIN dag_runs, t \in Tasks :
            (dag_runs[r].ti[t].state = "up_for_retry"
                /\ dag_runs'[r].ti[t].state = "running")
            => (clock' >= dag_runs[r].ti[t].end_date + 5
                /\ dag_runs'[r].ti[t].try_number = 2)]_vars

\* The transform task of the second run is on its second try, after the
\* first run has ended and the ingest task of the second run succeeded.
C16_Witness ==
    /\ Len(dag_runs) = 2
    /\ dag_runs[1].state \in {"success", "failed"}
    /\ dag_runs[2].state = "running"
    /\ dag_runs[2].ti[ingest].state = "success"
    /\ dag_runs[2].ti[transform].state = "running"
    /\ dag_runs[2].ti[transform].try_number = 2

\* C17 as stated, in the form a finite run refutes: whatever the mode, the
\* source and the staging content, a run in which no store operation
\* failed does not end as failed (a run that ended as failed was ended by a
\* store failure), and it has entered each stage at most once.
C17_RunWithoutStoreFailureCompletes ==
    /\ pc = "failed" => err \in StoreErrors
    /\ \A st \in Stages : ExecCount(st) <= 1

====
